---- MODULE Spec2Model ----
(***************************************************************************)
(* Model of chewie-crypto's signer protocol (src/src/signer).              *)
(*                                                                         *)
(* A signer holds one current key (descriptive name, JWS algorithm, key    *)
(* id, key material).  A key rotation replaces the whole key in one step.  *)
(* Guarded sign calls (JwsSigner::sign, JwsSignerSync::sign_sync) run      *)
(* concurrently with each other and with rotations; each call is modelled  *)
(* statement by statement, since every `&self` read of the signer is a     *)
(* separate access that another thread may interleave with.                *)
(***************************************************************************)
EXTENDS Naturals, Sequences, FiniteSets, TLC

\* ------------------------------------------------------------------ bounds
MaxRotations == 2
MaxSuspend == 1

\* ------------------------------------------------------------- value sets
CallIds == {"c1", "c2"}
Inputs == {"in1", "in2"}

\* Option<T>: None is the empty sequence, Some(x) a one-element sequence.
None == << >>
Some(x) == << x >>

JwsAlgs == {"JWS-ALG", "JWS-ALG2"}
KeyIds == {None, Some("key-id")}

\* algorithm() is a descriptive name, distinct from the JWS identifier.
AlgName(alg) == IF alg = "JWS-ALG" THEN "ALG" ELSE "ALG2"

\* A key: what algorithm(), jws_algorithm(), key_id() report, and the
\* material that sign_unchecked signs with (numbered by generation).
Key(alg, kid, mat) == [name |-> AlgName(alg), alg |-> alg, kid |-> kid, mat |-> mat]

\* Result<T, E>
Ok(v) == [tag |-> "Ok", value |-> v]
Err(e) == [tag |-> "Err", error |-> e]
NoResult == [tag |-> "None"]

\* signer::Error<E>
MismatchedKeyInfo == [kind |-> "MismatchedKeyInfo"]
UnderlyingError(e) == [kind |-> "UnderlyingError", source |-> e]

VARIABLES
    signer,     \* the signer's current key, published as a whole
    kind,       \* "blocking": implements JwsSignerSync; "suspending": JwsSigner
    failing,    \* the inputs on which the implementation's signing fails
    rotations,  \* number of key rotations so far
    held,       \* history: every (jws_algorithm, key_id) pair the signer held
    calls,      \* per guarded sign call: its position, arguments and history
    dec,        \* a secret decoder applied to a byte sequence
    sec,        \* the process environment and an EnvVarSecretSource reading it
    jwk         \* a JWK document being encoded or parsed

vars == << signer, kind, failing, rotations, held, calls, dec, sec, jwk >>

\* Nothing has been decoded yet: no input bytes, no decoder applied.
DecIdle == [bytes |-> << >>, decoder |-> "none", out |-> NoResult]

\* No secret source has been constructed.
SecIdle == [pc |-> "none"]

\* No JWK document has been encoded or parsed.
JwkIdle == [pc |-> "none"]

Terminal == {"Success", "FailUnderlying", "FailMismatched"}

IdleCall ==
    [ pc |-> "Idle", iface |-> "none", input |-> "none",
      expAlg |-> "none", expKid |-> None,
      seenAlg |-> << >>, seenKid |-> << >>,
      guardEvals |-> 0, asyncCalls |-> 0, syncCalls |-> 0,
      passed |-> << >>, usedKey |-> << >>, raw |-> NoResult,
      result |-> NoResult, suspended |-> FALSE, suspensions |-> 0,
      entryKey |-> << >>, rotated |-> FALSE, trace |-> << >> ]

Init ==
    /\ \E alg \in JwsAlgs, kid \in KeyIds : signer = Key(alg, kid, 0)
    /\ kind \in {"blocking", "suspending"}
    /\ failing \in SUBSET Inputs
    /\ rotations = 0
    /\ held = {<< signer.alg, signer.kid >>}
    /\ calls = [c \in CallIds |-> IdleCall]
    /\ dec = DecIdle
    /\ sec = SecIdle
    /\ jwk = JwkIdle

\* ------------------------------------------- the signer implementation
\* The bodies a concrete signer supplies.  They read the signer's current
\* key at the moment they are called.

\* JwsSignerSync::algorithm / jws_algorithm / key_id (blocking contract)
Sync_algorithm(s) == s.name
Sync_jws_algorithm(s) == s.alg
Sync_key_id(s) == s.kid

\* JwsSigner::algorithm / jws_algorithm / key_id of a natively suspending signer
Native_algorithm(s) == s.name
Native_jws_algorithm(s) == s.alg
Native_key_id(s) == s.kid

\* Signature bytes: determined by the key material and the signed input.
Signature(mat, input) == [mat |-> mat, over |-> input]

\* The signing primitive of the implementation: signs `input` with the key
\* material current at the call, or fails with its own error.
SignWith(s, input) ==
    IF input \in failing
    THEN Err(<< "SignError", input >>)
    ELSE Ok(Signature(s.mat, input))

\* JwsSignerSync::sign_unchecked
Sync_sign_unchecked(s, input) == SignWith(s, input)

\* JwsSigner::sign_unchecked of a natively suspending signer
Native_sign_unchecked(s, input) == SignWith(s, input)

\* ------------------------------ impl<Sgn: JwsSignerSync> JwsSigner for Sgn
Blanket_algorithm(s) == Sync_algorithm(s)

\* (variant: forwards to the descriptive algorithm() instead)
Blanket_jws_algorithm_wrong(s) == Sync_algorithm(s)
\* `JwsSignerSync::jws_algorithm(self)`
Blanket_jws_algorithm(s) == Sync_jws_algorithm(s)

Blanket_key_id(s) == Sync_key_id(s)

\* The getters a guarded call of interface `iface` on a signer of kind `k` uses.
jws_algorithm(iface, k, s) ==
    IF iface = "sync" THEN Sync_jws_algorithm(s)
    ELSE IF k = "blocking" THEN Blanket_jws_algorithm(s)
    ELSE Native_jws_algorithm(s)

key_id(iface, k, s) ==
    IF iface = "sync" THEN Sync_key_id(s)
    ELSE IF k = "blocking" THEN Blanket_key_id(s)
    ELSE Native_key_id(s)

\* ------------------------------------------------------------ the guard
\* `jws_algorithm != self.jws_algorithm().as_ref()`
AlgDiffers(exp, cur) == exp # cur

\* (variant: compares the key ids only when both are present)
KidDiffers_lenient(exp, cur) == exp # None /\ cur # None /\ exp # cur
\* `key_id != self.key_id().as_deref()`: Option equality, None # Some(_)
KidDiffers(exp, cur) == exp # cur

\* (variant: the wrapped error loses its source)
Context_dropsSource(r) ==
    IF r.tag = "Err" THEN Err(UnderlyingError(<< "SignError" >>)) ELSE r
\* `.context(UnderlyingSnafu)`: Ok passes through, Err(e) is wrapped
Context(r) ==
    IF r.tag = "Err" THEN Err(UnderlyingError(r.error)) ELSE r

InFlight(cr) == cr.pc \notin ({"Idle"} \cup Terminal)

Visit(cr, states) ==
    [cr EXCEPT !.pc = states[Len(states)], !.trace = @ \o states]

\* ------------------------------------------------- steps of a guarded call
\* Call entry of sign / sign_sync: the arguments are bound; for the suspending
\* interface this is the creation of the future, which runs when first polled.
Enter(cr, iface, input, expAlg, expKid, s) ==
    [cr EXCEPT !.pc = "Start", !.trace = << "Start" >>, !.iface = iface,
               !.input = input, !.expAlg = expAlg, !.expKid = expKid,
               !.entryKey = << s >>]

\* First operand of the guard's `||`: reads self.jws_algorithm() and compares.
\* When it differs the second operand is not evaluated.
GuardAlg(cr, k, s) ==
    LET cur == jws_algorithm(cr.iface, k, s)
        seen == [cr EXCEPT !.seenAlg = << cur >>, !.guardEvals = @ + 1]
    IN  IF AlgDiffers(cr.expAlg, cur)
        THEN Visit(seen, << "CheckMetadata", "Mismatch" >>)
        ELSE Visit(seen, << "CheckMetadata" >>)

\* Second operand of the guard's `||`: reads self.key_id() and compares.
GuardKid(cr, k, s) ==
    LET cur == key_id(cr.iface, k, s)
        seen == [cr EXCEPT !.seenKid = << cur >>]
    IN  IF KidDiffers(cr.expKid, cur)
        THEN Visit(seen, << "Mismatch" >>)
        ELSE Visit(seen, << "Match" >>)

\* (variant: the mismatch branch does not return and goes on to sign)
FailMismatch_fallsThrough(cr) == Visit(cr, << "Invoke" >>)
\* (variant: the guard is tried a second time before the call fails)
RetryAfterMismatch(cr) ==
    IF cr.guardEvals < 2
    THEN [cr EXCEPT !.pc = "Start"]
    ELSE [Visit(cr, << "FailMismatched" >>) EXCEPT !.result = Err(MismatchedKeyInfo)]
\* `MismatchedKeyInfoSnafu.fail()`
FailMismatch(cr) ==
    [Visit(cr, << "FailMismatched" >>) EXCEPT !.result = Err(MismatchedKeyInfo)]

\* sign_sync's `self.sign_unchecked(input)`: the blocking primitive runs with
\* the key current at this moment.
SyncInvoke(cr, s) ==
    [Visit(cr, << "Invoke" >>) EXCEPT
        !.syncCalls = @ + 1, !.passed = << cr.input >>, !.usedKey = << s >>,
        !.raw = Sync_sign_unchecked(s, cr.input)]

\* (variant: the adapter goes through the guarded sign_sync)
BlanketInvokeViaSignSync(cr, s) ==
    LET again == [cr EXCEPT !.guardEvals = @ + 1, !.asyncCalls = @ + 1]
    IN  IF AlgDiffers(cr.expAlg, Sync_jws_algorithm(s))
           \/ KidDiffers(cr.expKid, Sync_key_id(s))
        THEN [Visit(again, << "Invoke" >>) EXCEPT
                !.raw = Err(<< "SignError", cr.input >>)]
        ELSE [Visit(again, << "Invoke" >>) EXCEPT
                !.syncCalls = @ + 1, !.passed = << cr.input >>,
                !.usedKey = << s >>, !.raw = Sync_sign_unchecked(s, cr.input)]
\* The blanket impl's sign_unchecked:
\* `std::future::ready(JwsSignerSync::sign_unchecked(self, input))`.
\* The blocking primitive is called once, directly; the future is resolved.
BlanketInvoke(cr, s) ==
    [Visit(cr, << "Invoke" >>) EXCEPT
        !.asyncCalls = @ + 1, !.syncCalls = @ + 1,
        !.passed = << cr.input >>, !.usedKey = << s >>,
        !.raw = Sync_sign_unchecked(s, cr.input)]

\* sign's `self.sign_unchecked(input)` on a natively suspending signer.
NativeInvoke(cr, s) ==
    [Visit(cr, << "Invoke" >>) EXCEPT
        !.asyncCalls = @ + 1, !.passed = << cr.input >>, !.usedKey = << s >>,
        !.raw = Native_sign_unchecked(s, cr.input)]

\* sign_unchecked has returned (or its future has resolved):
\* `.context(UnderlyingSnafu)` turns its outcome into the call's outcome.
Finish(cr) ==
    LET res == Context(cr.raw)
    IN  [Visit(cr, << IF res.tag = "Ok" THEN "Success" ELSE "FailUnderlying" >>)
            EXCEPT !.result = res]

\* (variant: the block also awaits before and during the guard)
AwaitPoint_beforeGuard(cr, k) ==
    /\ cr.iface = "async"
    /\ cr.pc \in {"Start", "CheckMetadata", "Invoke"}
\* The await points of the `async move` block of sign: the only `.await` is on
\* the future of sign_unchecked; a resolved future (the blanket impl's `ready`)
\* never suspends.
AwaitPoint(cr, k) ==
    /\ cr.iface = "async"
    /\ k = "suspending"
    /\ cr.pc = "Invoke"

\* ---------------------------------------------------------------- actions
Call(c) ==
    /\ calls[c].pc = "Idle"
    /\ \E iface \in (IF kind = "blocking" THEN {"sync", "async"} ELSE {"async"}),
          input \in Inputs, expAlg \in JwsAlgs, expKid \in KeyIds :
            calls' = [calls EXCEPT ![c] =
                        Enter(calls[c], iface, input, expAlg, expKid, signer)]
    /\ UNCHANGED << signer, kind, failing, rotations, held, dec, sec, jwk >>

EvalAlg(c) ==
    /\ calls[c].pc = "Start"
    /\ ~calls[c].suspended
    /\ calls' = [calls EXCEPT ![c] = GuardAlg(calls[c], kind, signer)]
    /\ UNCHANGED << signer, kind, failing, rotations, held, dec, sec, jwk >>

EvalKid(c) ==
    /\ calls[c].pc = "CheckMetadata"
    /\ ~calls[c].suspended
    /\ calls' = [calls EXCEPT ![c] = GuardKid(calls[c], kind, signer)]
    /\ UNCHANGED << signer, kind, failing, rotations, held, dec, sec, jwk >>

Mismatch(c) ==
    /\ calls[c].pc = "Mismatch"
    /\ calls' = [calls EXCEPT ![c] = FailMismatch(calls[c])]
    /\ UNCHANGED << signer, kind, failing, rotations, held, dec, sec, jwk >>

InvokeSync(c) ==
    /\ calls[c].pc = "Match"
    /\ calls[c].iface = "sync"
    /\ calls' = [calls EXCEPT ![c] = SyncInvoke(calls[c], signer)]
    /\ UNCHANGED << signer, kind, failing, rotations, held, dec, sec, jwk >>

InvokeBlanket(c) ==
    /\ calls[c].pc = "Match"
    /\ calls[c].iface = "async"
    /\ kind = "blocking"
    /\ calls' = [calls EXCEPT ![c] = BlanketInvoke(calls[c], signer)]
    /\ UNCHANGED << signer, kind, failing, rotations, held, dec, sec, jwk >>

InvokeNative(c) ==
    /\ calls[c].pc = "Match"
    /\ calls[c].iface = "async"
    /\ kind = "suspending"
    /\ calls' = [calls EXCEPT ![c] = NativeInvoke(calls[c], signer)]
    /\ UNCHANGED << signer, kind, failing, rotations, held, dec, sec, jwk >>

\* The future of the call returns Pending at an await point ...
Suspend(c) ==
    /\ AwaitPoint(calls[c], kind)
    /\ ~calls[c].suspended
    /\ calls[c].suspensions < MaxSuspend
    /\ calls' = [calls EXCEPT ![c].suspended = TRUE, ![c].suspensions = @ + 1]
    /\ UNCHANGED << signer, kind, failing, rotations, held, dec, sec, jwk >>

\* ... and is polled again.
Resume(c) ==
    /\ calls[c].suspended
    /\ calls' = [calls EXCEPT ![c].suspended = FALSE]
    /\ UNCHANGED << signer, kind, failing, rotations, held, dec, sec, jwk >>

Complete(c) ==
    /\ calls[c].pc = "Invoke"
    /\ ~calls[c].suspended
    /\ calls' = [calls EXCEPT ![c] = Finish(calls[c])]
    /\ UNCHANGED << signer, kind, failing, rotations, held, dec, sec, jwk >>

\* A key rotation: the signer's key (material and reported identity) is
\* replaced as a whole by a key with another identity.
Rotate ==
    /\ rotations < MaxRotations
    /\ \E alg \in JwsAlgs, kid \in KeyIds :
        /\ << alg, kid >> # << signer.alg, signer.kid >>
        /\ signer' = Key(alg, kid, rotations + 1)
        /\ held' = held \cup {<< alg, kid >>}
    /\ rotations' = rotations + 1
    /\ calls' = [c \in CallIds |->
                    IF InFlight(calls[c])
                    THEN [calls[c] EXCEPT !.rotated = TRUE]
                    ELSE calls[c]]
    /\ UNCHANGED << kind, failing, dec, sec, jwk >>

\* Steps of the guarded call c.
CallStep(c) ==
    \/ EvalAlg(c)
    \/ EvalKid(c)
    \/ Mismatch(c)
    \/ InvokeSync(c)
    \/ InvokeBlanket(c)
    \/ InvokeNative(c)
    \/ Suspend(c)
    \/ Resume(c)
    \/ Complete(c)

\* Spec: one guarded call racing with key rotations.  A guarded call never
\* writes the signer, so what a call does depends only on the keys the signer
\* holds while it runs: further concurrent calls add no behaviour to a call.
Racing == {"c1"}

Next ==
    \/ \E c \in Racing : Call(c)
    \/ \E c \in Racing : EvalAlg(c)
    \/ \E c \in Racing : EvalKid(c)
    \/ \E c \in Racing : Mismatch(c)
    \/ \E c \in Racing : InvokeSync(c)
    \/ \E c \in Racing : InvokeBlanket(c)
    \/ \E c \in Racing : InvokeNative(c)
    \/ \E c \in Racing : Suspend(c)
    \/ \E c \in Racing : Resume(c)
    \/ \E c \in Racing : Complete(c)
    \/ Rotate

Spec == Init /\ [][Next]_vars

\* SpecPair: two guarded calls on one blocking signer whose key stays put, to
\* compare sign_sync with sign through the blanket impl on the same signer.
InitPair ==
    /\ Init
    /\ kind = "blocking"

NextPair ==
    \/ \E c \in CallIds : Call(c)
    \/ \E c \in CallIds : EvalAlg(c)
    \/ \E c \in CallIds : EvalKid(c)
    \/ \E c \in CallIds : Mismatch(c)
    \/ \E c \in CallIds : InvokeSync(c)
    \/ \E c \in CallIds : InvokeBlanket(c)
    \/ \E c \in CallIds : Complete(c)

SpecPair == InitPair /\ [][NextPair]_vars

\* =========================================================================
\* Secret decoders (src/src/secrets/encoding.rs)
\* =========================================================================
\* A byte is a number in 0..255; a str is its sequence of code points.
MaxBytes == 4

\* space, 'A' (hex digit, base64 symbol 0), 'g' (base64 symbol, no hex digit),
\* '=', 0xC2 (lead byte), 0xA0 and 0xA9 (continuation bytes: C2 A0 is the
\* whitespace U+00A0, C2 A9 is U+00A9), 0xFF (never valid in UTF-8)
ByteAlphabet == {32, 65, 103, 61, 194, 160, 169, 255}

\* EncodingError
InvalidUtf8(src) == [kind |-> "InvalidUtf8", source |-> src]
InvalidHex(src) == [kind |-> "InvalidHex", source |-> src]
InvalidBase64(src) == [kind |-> "InvalidBase64", source |-> src]

IsCont(b) == b >= 128 /\ b <= 191

\* Width of the well-formed UTF-8 sequence that starts at bytes[i]; 0 if none.
Utf8Width(bytes, i) ==
    LET b == bytes[i]
        at(j) == IF j <= Len(bytes) THEN bytes[j] ELSE 0
        tail2 == IsCont(at(i + 2))
        tail3 == IsCont(at(i + 2)) /\ IsCont(at(i + 3))
    IN  IF b < 128 THEN 1
        ELSE IF b >= 194 /\ b <= 223
            THEN (IF IsCont(at(i + 1)) THEN 2 ELSE 0)
        ELSE IF b = 224
            THEN (IF at(i + 1) >= 160 /\ at(i + 1) <= 191 /\ tail2 THEN 3 ELSE 0)
        ELSE IF (b >= 225 /\ b <= 236) \/ b = 238 \/ b = 239
            THEN (IF IsCont(at(i + 1)) /\ tail2 THEN 3 ELSE 0)
        ELSE IF b = 237
            THEN (IF at(i + 1) >= 128 /\ at(i + 1) <= 159 /\ tail2 THEN 3 ELSE 0)
        ELSE IF b = 240
            THEN (IF at(i + 1) >= 144 /\ at(i + 1) <= 191 /\ tail3 THEN 4 ELSE 0)
        ELSE IF b >= 241 /\ b <= 243
            THEN (IF IsCont(at(i + 1)) /\ tail3 THEN 4 ELSE 0)
        ELSE IF b = 244
            THEN (IF at(i + 1) >= 128 /\ at(i + 1) <= 143 /\ tail3 THEN 4 ELSE 0)
        ELSE 0

\* The code point encoded by the w bytes at bytes[i].
CodePoint(bytes, i, w) ==
    IF w = 1 THEN bytes[i]
    ELSE IF w = 2 THEN (bytes[i] - 192) * 64 + (bytes[i + 1] - 128)
    ELSE IF w = 3 THEN (bytes[i] - 224) * 4096 + (bytes[i + 1] - 128) * 64
                        + (bytes[i + 2] - 128)
    ELSE (bytes[i] - 240) * 262144 + (bytes[i + 1] - 128) * 4096
            + (bytes[i + 2] - 128) * 64 + (bytes[i + 3] - 128)

\* Not a code point: marks the place where decoding met malformed bytes.
Malformed == 1114112

RECURSIVE Utf8Chars(_, _)
Utf8Chars(bytes, i) ==
    IF i > Len(bytes) THEN << >>
    ELSE LET w == Utf8Width(bytes, i)
         IN  IF w = 0 THEN << Malformed >>
             ELSE << CodePoint(bytes, i, w) >> \o Utf8Chars(bytes, i + w)

\* std::str::from_utf8
from_utf8(bytes) ==
    LET cs == Utf8Chars(bytes, 1)
    IN  IF \E i \in 1..Len(cs) : cs[i] = Malformed
        THEN Err("Utf8Error")
        ELSE Ok(cs)

\* char::is_whitespace (the Unicode White_Space property)
IsWhitespace(c) ==
    \/ c >= 9 /\ c <= 13
    \/ c \in {32, 133, 160, 5760, 8232, 8233, 8239, 8287, 12288}
    \/ c >= 8192 /\ c <= 8202

RECURSIVE TrimStart(_)
TrimStart(s) ==
    IF s # << >> /\ IsWhitespace(Head(s)) THEN TrimStart(Tail(s)) ELSE s

RECURSIVE TrimEnd(_)
TrimEnd(s) ==
    IF s # << >> /\ IsWhitespace(s[Len(s)])
    THEN TrimEnd(SubSeq(s, 1, Len(s) - 1))
    ELSE s

\* (variant: only the leading whitespace is removed)
trim_start_only(s) == TrimStart(s)
\* str::trim
trim(s) == TrimEnd(TrimStart(s))

\* The UTF-8 bytes of one code point.
Utf8Encode(c) ==
    IF c < 128 THEN << c >>
    ELSE IF c < 2048 THEN << 192 + (c \div 64), 128 + (c % 64) >>
    ELSE IF c < 65536
        THEN << 224 + (c \div 4096), 128 + ((c \div 64) % 64), 128 + (c % 64) >>
    ELSE << 240 + (c \div 262144), 128 + ((c \div 4096) % 64),
            128 + ((c \div 64) % 64), 128 + (c % 64) >>

\* str::as_bytes
RECURSIVE as_bytes(_)
as_bytes(s) ==
    IF s = << >> THEN << >> ELSE Utf8Encode(Head(s)) \o as_bytes(Tail(s))

\* Value of a hex digit, 16 for any other byte.
HexVal(b) ==
    IF b >= 48 /\ b <= 57 THEN b - 48
    ELSE IF b >= 97 /\ b <= 102 THEN b - 87
    ELSE IF b >= 65 /\ b <= 70 THEN b - 55
    ELSE 16

\* hex::decode
hex_decode(bytes) ==
    IF Len(bytes) % 2 # 0 THEN Err("OddLength")
    ELSE IF \E i \in 1..Len(bytes) : HexVal(bytes[i]) = 16
        THEN Err("InvalidHexCharacter")
    ELSE Ok([i \in 1..(Len(bytes) \div 2) |->
                HexVal(bytes[2 * i - 1]) * 16 + HexVal(bytes[2 * i])])

\* Value of a symbol of the standard base64 alphabet, 64 for any other byte.
B64Val(b) ==
    IF b >= 65 /\ b <= 90 THEN b - 65
    ELSE IF b >= 97 /\ b <= 122 THEN b - 71
    ELSE IF b >= 48 /\ b <= 57 THEN b + 4
    ELSE IF b = 43 THEN 62
    ELSE IF b = 47 THEN 63
    ELSE 64

\* Number of '=' at the end of bytes.
RECURSIVE PadCount(_)
PadCount(bytes) ==
    IF bytes # << >> /\ bytes[Len(bytes)] = 61
    THEN 1 + PadCount(SubSeq(bytes, 1, Len(bytes) - 1))
    ELSE 0

\* base64::engine::general_purpose::STANDARD.decode: canonical padding is
\* required and the unused bits of the last symbol must be zero.
base64_decode(bytes) ==
    LET n == Len(bytes)
        p == PadCount(bytes)
        d == n - p
        v(i) == IF i <= d THEN B64Val(bytes[i]) ELSE 0
        byteAt(k) ==
            LET g == 4 * ((k - 1) \div 3)
                r == (k - 1) % 3
            IN  IF r = 0 THEN v(g + 1) * 4 + (v(g + 2) \div 16)
                ELSE IF r = 1 THEN (v(g + 2) % 16) * 16 + (v(g + 3) \div 4)
                ELSE (v(g + 3) % 4) * 64 + v(g + 4)
    IN  IF \/ n % 4 # 0
           \/ p > 2
           \/ \E i \in 1..d : B64Val(bytes[i]) = 64
           \/ p = 1 /\ v(d) % 4 # 0
           \/ p = 2 /\ v(d) % 16 # 0
        THEN Err("DecodeError")
        ELSE Ok([k \in 1..((n \div 4) * 3 - p) |-> byteAt(k)])

\* StringEncoding::decode
StringEncoding_decode(bytes) ==
    LET s == from_utf8(bytes)
    IN  IF s.tag = "Err" THEN Err(InvalidUtf8(s.error))
        ELSE Ok(trim(s.value))

\* BinaryEncoding::decode
BinaryEncoding_decode(bytes) == Ok(bytes)

\* (variant: the bytes are hex-decoded without the UTF-8 check)
HexEncoding_decode_unchecked(bytes) ==
    LET d == hex_decode(bytes)
    IN  IF d.tag = "Err" THEN Err(InvalidHex(d.error)) ELSE d
\* HexEncoding::decode
HexEncoding_decode(bytes) ==
    LET s == from_utf8(bytes)
    IN  IF s.tag = "Err" THEN Err(InvalidUtf8(s.error))
        ELSE LET d == hex_decode(as_bytes(trim(s.value)))
             IN  IF d.tag = "Err" THEN Err(InvalidHex(d.error)) ELSE d

\* Base64Encoding::decode
Base64Encoding_decode(bytes) ==
    LET s == from_utf8(bytes)
    IN  IF s.tag = "Err" THEN Err(InvalidUtf8(s.error))
        ELSE LET d == base64_decode(as_bytes(trim(s.value)))
             IN  IF d.tag = "Err" THEN Err(InvalidBase64(d.error)) ELSE d

\* SecretEncoding::decode of the decoder named e
Decoders == {"string", "binary", "hex", "base64"}

decode(e, bytes) ==
    IF e = "string" THEN StringEncoding_decode(bytes)
    ELSE IF e = "binary" THEN BinaryEncoding_decode(bytes)
    ELSE IF e = "hex" THEN HexEncoding_decode(bytes)
    ELSE Base64Encoding_decode(bytes)

\* The signer plays no part in the secrets specifications.
SignerUnused ==
    /\ signer = Key("JWS-ALG", None, 0)
    /\ kind = "blocking"
    /\ failing = {}
    /\ rotations = 0
    /\ held = {<< "JWS-ALG", None >>}
    /\ calls = [c \in CallIds |-> IdleCall]

\* SpecDecode: a byte sequence is put together, then one decoder is applied.
InitDecode ==
    /\ SignerUnused
    /\ dec = DecIdle
    /\ sec = SecIdle
    /\ jwk = JwkIdle

Feed(b) ==
    /\ dec.decoder = "none"
    /\ Len(dec.bytes) < MaxBytes
    /\ dec' = [dec EXCEPT !.bytes = Append(@, b)]
    /\ UNCHANGED << signer, kind, failing, rotations, held, calls, sec, jwk >>

DecodeString ==
    /\ dec.decoder = "none"
    /\ dec' = [dec EXCEPT !.decoder = "string",
                          !.out = StringEncoding_decode(dec.bytes)]
    /\ UNCHANGED << signer, kind, failing, rotations, held, calls, sec, jwk >>

DecodeBinary ==
    /\ dec.decoder = "none"
    /\ dec' = [dec EXCEPT !.decoder = "binary",
                          !.out = BinaryEncoding_decode(dec.bytes)]
    /\ UNCHANGED << signer, kind, failing, rotations, held, calls, sec, jwk >>

DecodeHex ==
    /\ dec.decoder = "none"
    /\ dec' = [dec EXCEPT !.decoder = "hex",
                          !.out = HexEncoding_decode(dec.bytes)]
    /\ UNCHANGED << signer, kind, failing, rotations, held, calls, sec, jwk >>

DecodeBase64 ==
    /\ dec.decoder = "none"
    /\ dec' = [dec EXCEPT !.decoder = "base64",
                          !.out = Base64Encoding_decode(dec.bytes)]
    /\ UNCHANGED << signer, kind, failing, rotations, held, calls, sec, jwk >>

NextDecode ==
    \/ \E b \in ByteAlphabet : Feed(b)
    \/ DecodeString
    \/ DecodeBinary
    \/ DecodeHex
    \/ DecodeBase64

SpecDecode == InitDecode /\ [][NextDecode]_vars

\* ------------------------------------------------------------------------
\* Environment-variable secret source (secrets/providers.rs)
\* ------------------------------------------------------------------------

\* Bound: number of get_secret calls made on the source.
MaxGets == 2

\* Environment variable names; the source is constructed over one of them.
VarNames == {"SECRET", "OTHER"}

\* Values a variable is set to, as OS strings (bytes): "AA", " AA==" and the
\* single byte 0xFF, which is not valid Unicode.
EnvValues == { << 65, 65 >>, << 32, 65, 65, 61, 61 >>, << 255 >> }

\* std::env::VarError
NotPresent == [kind |-> "NotPresent"]
NotUnicode(os) == [kind |-> "NotUnicode", value |-> os]

\* SecretSourceError
EnvAccess(name, src) == [kind |-> "EnvAccess", var_name |-> name, source |-> src]
Decode(src) == [kind |-> "Decode", source |-> src]

\* std::env::var lossy variant: invalid Unicode is replaced by U+FFFD instead
\* of being reported.
env_var_lossy(env, name) ==
    IF env[name] = None THEN Err(NotPresent)
    ELSE IF from_utf8(env[name][1]).tag = "Err" THEN Ok(<< 65533 >>)
    ELSE Ok(from_utf8(env[name][1]).value)

\* std::env::var(name): the value as a String, or VarError.
env_var(env, name) ==
    IF env[name] = None THEN Err(NotPresent)
    ELSE IF from_utf8(env[name][1]).tag = "Err"
         THEN Err(NotUnicode(env[name][1]))
    ELSE Ok(from_utf8(env[name][1]).value)

\* A lookup that keeps the outcome of the source's previous lookup.
Lookup_cached(s) ==
    IF s.prev # NoResult THEN s.prev ELSE env_var(s.env, s.var_name)

\* get_secret line 63, the lookup: std::env::var(&self.var_name).
Lookup(s) == env_var(s.env, s.var_name)

\* The source after EnvVarSecretSource::new(var_name, encoding), in a process
\* environment env. Fields of the call in flight: value (the local of line
\* 63), result; history: atRead (what the variable held when line 63 ran),
\* during (what it held at any time during the call), decodeCalls and
\* decodeArg (invocations of the decoder), prev (the previous call's lookup
\* outcome), lastResult (what the previous call returned), gets (calls made).
NewSource(env, name, e) ==
    [pc |-> "idle", env |-> env, var_name |-> name, encoding |-> e,
     value |-> NoResult, result |-> NoResult,
     atRead |-> None, during |-> {}, decodeCalls |-> 0, decodeArg |-> None,
     prev |-> NoResult, lastResult |-> NoResult, gets |-> 0]

InitEnv ==
    /\ SignerUnused
    /\ dec = DecIdle
    /\ jwk = JwkIdle
    /\ \E name \in VarNames, e \in Decoders :
        sec = NewSource([n \in VarNames |-> None], name, e)

\* Another part of the process sets a variable (std::env::set_var).
SetVar(n, v) ==
    /\ sec.env[n] # Some(v)
    /\ sec' = [sec EXCEPT !.env[n] = Some(v),
                          !.during = IF n = sec.var_name /\ sec.pc # "idle"
                                     THEN @ \cup {Some(v)} ELSE @]
    /\ UNCHANGED << signer, kind, failing, rotations, held, calls, dec, jwk >>

\* Another part of the process removes a variable (std::env::remove_var).
RemoveVar(n) ==
    /\ sec.env[n] # None
    /\ sec' = [sec EXCEPT !.env[n] = None,
                          !.during = IF n = sec.var_name /\ sec.pc # "idle"
                                     THEN @ \cup {None} ELSE @]
    /\ UNCHANGED << signer, kind, failing, rotations, held, calls, dec, jwk >>

\* get_secret is called: the future is created and polled (line 62).
GetSecret ==
    /\ sec.pc = "idle"
    /\ sec.gets < MaxGets
    /\ sec' = [sec EXCEPT !.pc = "lookup", !.gets = @ + 1,
                          !.value = NoResult, !.result = NoResult,
                          !.atRead = None, !.decodeCalls = 0,
                          !.decodeArg = None,
                          !.during = {sec.env[sec.var_name]}]
    /\ UNCHANGED << signer, kind, failing, rotations, held, calls, dec, jwk >>

\* Line 63: std::env::var(..).context(EnvAccessSnafu { var_name })?
ReadEnv ==
    /\ sec.pc = "lookup"
    /\ LET r == Lookup(sec) IN
       sec' = [sec EXCEPT
                 !.atRead = sec.env[sec.var_name],
                 !.prev = r,
                 !.value = r,
                 !.pc = IF r.tag = "Ok" THEN "decode" ELSE "done",
                 !.result = IF r.tag = "Ok" THEN NoResult
                            ELSE Err(EnvAccess(sec.var_name, r.error))]
    /\ UNCHANGED << signer, kind, failing, rotations, held, calls, dec, jwk >>

\* Line 64: self.encoding.decode(value.as_bytes()).context(DecodeSnafu)
DecodeValue ==
    /\ sec.pc = "decode"
    /\ LET arg == as_bytes(sec.value.value)
           d == decode(sec.encoding, arg)
       IN sec' = [sec EXCEPT
                    !.decodeCalls = @ + 1,
                    !.decodeArg = Some(arg),
                    !.pc = "done",
                    !.result = IF d.tag = "Ok" THEN d
                               ELSE Err(Decode(d.error))]
    /\ UNCHANGED << signer, kind, failing, rotations, held, calls, dec, jwk >>

\* The caller takes the result; the source is ready for the next call.
Return ==
    /\ sec.pc = "done"
    /\ sec' = [sec EXCEPT !.pc = "idle", !.lastResult = sec.result]
    /\ UNCHANGED << signer, kind, failing, rotations, held, calls, dec, jwk >>

NextEnv ==
    \/ \E n \in VarNames, v \in EnvValues : SetVar(n, v)
    \/ \E n \in VarNames : RemoveVar(n)
    \/ GetSecret
    \/ ReadEnv
    \/ DecodeValue
    \/ Return

SpecEnv == InitEnv /\ [][NextEnv]_vars

\* ------------------------------------------------------------------------
\* JWK wire format (jwk/mod.rs)
\* ------------------------------------------------------------------------

\* Bound: number of keys in a key set, and of entries in a document.
MaxKeys == 2

\* Variants of the serde enums with their attributes: the wire name (rename /
\* rename_all), skip (= skip_serializing and skip_deserializing) and other.
Variant(name, wire, skip, other) ==
    [name |-> name, wire |-> wire, skip |-> skip, other |-> other]

KeyUse ==
    << Variant("Sign", "sig", FALSE, FALSE),
       Variant("Encrypt", "enc", FALSE, FALSE),
       Variant("Unknown", "Unknown", TRUE, TRUE) >>

KeyOperation ==
    << Variant("Sign", "sign", FALSE, FALSE),
       Variant("Verify", "verify", FALSE, FALSE),
       Variant("Encrypt", "encrypt", FALSE, FALSE),
       Variant("Decrypt", "decrypt", FALSE, FALSE),
       Variant("WrapKey", "wrapKey", FALSE, FALSE),
       Variant("UnwrapKey", "unwrapKey", FALSE, FALSE),
       Variant("DeriveKey", "deriveKey", FALSE, FALSE),
       Variant("DeriveBits", "deriveBits", FALSE, FALSE),
       Variant("Unknown", "unknown", TRUE, TRUE) >>

PublicKey ==
    << Variant("Rsa", "RSA", FALSE, FALSE),
       Variant("Ec", "EC", FALSE, FALSE),
       Variant("Okp", "OKP", FALSE, FALSE),
       Variant("UnknownOrPrivate", "UnknownOrPrivate", TRUE, TRUE) >>

\* The failure of serde_json::to_string and of serde_json::from_str.
SerializeError(msg) == [kind |-> "SerializeError", msg |-> msg]
ParseError(msg) == [kind |-> "ParseError", msg |-> msg]

\* derive(Serialize) on an enum whose rename attributes are not applied:
\* the variant's Rust name is written.
SerializeVariant_unrenamed(enum, name) ==
    LET v == CHOOSE v \in { enum[i] : i \in DOMAIN enum } : v.name = name IN
    IF v.skip THEN Err(SerializeError("variant cannot be serialized"))
    ELSE Ok(v.name)

\* derive(Serialize) on an enum: the wire name of the variant; a variant
\* with skip_serializing cannot be serialized.
SerializeVariant(enum, name) ==
    LET v == CHOOSE v \in { enum[i] : i \in DOMAIN enum } : v.name = name IN
    IF v.skip THEN Err(SerializeError("variant cannot be serialized"))
    ELSE Ok(v.wire)

\* derive(Deserialize) on an enum: the variants that are not
\* skip_deserializing, and among them the one marked other, if any.
DeserializedVariants(enum) == { enum[i] : i \in { j \in DOMAIN enum : ~enum[j].skip } }

Fallthrough(enum) == { v \in DeserializedVariants(enum) : v.other }

\* derive(Deserialize) on an enum: the variant a wire name selects
\* (visit_str of the generated __FieldVisitor).
DeserializeVariant(enum, wire) ==
    LET named == { v \in DeserializedVariants(enum) : v.wire = wire } IN
    IF named # {} THEN Ok((CHOOSE v \in named : TRUE).name)
    ELSE IF Fallthrough(enum) # {}
         THEN Ok((CHOOSE v \in Fallthrough(enum) : TRUE).name)
    ELSE Err(ParseError("unknown variant"))

\* The URL-safe base64 alphabet: character of a 6-bit value, and back
\* (64: not in the alphabet).
B64UrlChar(v) ==
    IF v < 26 THEN 65 + v
    ELSE IF v < 52 THEN 97 + (v - 26)
    ELSE IF v < 62 THEN 48 + (v - 52)
    ELSE IF v = 62 THEN 45 ELSE 95

B64UrlVal(c) ==
    IF c >= 65 /\ c <= 90 THEN c - 65
    ELSE IF c >= 97 /\ c <= 122 THEN c - 97 + 26
    ELSE IF c >= 48 /\ c <= 57 THEN c - 48 + 52
    ELSE IF c = 45 THEN 62
    ELSE IF c = 95 THEN 63 ELSE 64

\* Unpadded base64url text of a byte sequence.
RECURSIVE base64url_encode(_)
base64url_encode(bytes) ==
    IF bytes = << >> THEN << >>
    ELSE IF Len(bytes) = 1
    THEN << B64UrlChar(bytes[1] \div 4), B64UrlChar((bytes[1] % 4) * 16) >>
    ELSE IF Len(bytes) = 2
    THEN << B64UrlChar(bytes[1] \div 4),
            B64UrlChar((bytes[1] % 4) * 16 + bytes[2] \div 16),
            B64UrlChar((bytes[2] % 16) * 4) >>
    ELSE << B64UrlChar(bytes[1] \div 4),
            B64UrlChar((bytes[1] % 4) * 16 + bytes[2] \div 16),
            B64UrlChar((bytes[2] % 16) * 4 + bytes[3] \div 64),
            B64UrlChar(bytes[3] % 64) >>
         \o base64url_encode(SubSeq(bytes, 4, Len(bytes)))

\* The bytes of an unpadded base64url text, or an error: a character that is
\* not in the alphabet, an impossible length, or non-zero trailing bits.
RECURSIVE B64UrlBytes(_)
B64UrlBytes(text) ==
    IF Len(text) < 2 THEN << >>
    ELSE IF Len(text) = 2
    THEN << B64UrlVal(text[1]) * 4 + B64UrlVal(text[2]) \div 16 >>
    ELSE IF Len(text) = 3
    THEN << B64UrlVal(text[1]) * 4 + B64UrlVal(text[2]) \div 16,
            (B64UrlVal(text[2]) % 16) * 16 + B64UrlVal(text[3]) \div 4 >>
    ELSE << B64UrlVal(text[1]) * 4 + B64UrlVal(text[2]) \div 16,
            (B64UrlVal(text[2]) % 16) * 16 + B64UrlVal(text[3]) \div 4,
            (B64UrlVal(text[3]) % 4) * 64 + B64UrlVal(text[4]) >>
         \o B64UrlBytes(SubSeq(text, 5, Len(text)))

base64url_decode(text) ==
    LET n == Len(text) IN
    IF \E i \in 1..n : B64UrlVal(text[i]) = 64
        THEN Err(ParseError("invalid base64url"))
    ELSE IF n % 4 = 1 THEN Err(ParseError("invalid base64url"))
    ELSE IF n % 4 = 2 /\ B64UrlVal(text[n]) % 16 # 0
        THEN Err(ParseError("invalid base64url"))
    ELSE IF n % 4 = 3 /\ B64UrlVal(text[n]) % 4 # 0
        THEN Err(ParseError("invalid base64url"))
    ELSE Ok(B64UrlBytes(text))

\* base64url_uint: the minimal big-endian form is written: a leading zero
\* byte in front of a byte with the high bit set is left out; reading takes
\* the text with or without that byte.
StripSignByte(bytes) ==
    IF Len(bytes) >= 2 /\ bytes[1] = 0 /\ bytes[2] >= 128
    THEN Tail(bytes) ELSE bytes

base64url_uint_encode(bytes) == base64url_encode(StripSignByte(bytes))

base64url_uint_decode(text) == base64url_decode(text)

\* In-memory key material and keys (the builders' results).
Rsa(n, e) == [variant |-> "Rsa", n |-> n, e |-> e]
Ec(crv, x, y) == [variant |-> "Ec", crv |-> crv, x |-> x, y |-> y]
Okp(crv, x) == [variant |-> "Okp", crv |-> crv, x |-> x]
UnknownOrPrivate == [variant |-> "UnknownOrPrivate"]

PublicJwk(key, key_use, key_operations, algorithm, kid) ==
    [key |-> key, key_use |-> key_use, key_operations |-> key_operations,
     algorithm |-> algorithm, kid |-> kid]

PublicJwks(keys) == [keys |-> keys]

\* JSON objects are functions from member names to values.
With(obj, f, v) == [x \in DOMAIN obj \cup {f} |-> IF x = f THEN v ELSE obj[x]]
Without(obj, f) == [x \in DOMAIN obj \ {f} |-> obj[x]]

\* A text that is JSON (holding the value json), and a text that is not.
Json(json) == [wf |-> TRUE, json |-> json]
NotJson == [wf |-> FALSE]

\* The first error of a sequence of results, or Ok of their values.
Collect(rs) ==
    IF \E i \in DOMAIN rs : rs[i].tag = "Err"
    THEN rs[CHOOSE i \in DOMAIN rs :
                /\ rs[i].tag = "Err"
                /\ \A j \in 1..(i - 1) : rs[j].tag = "Ok"]
    ELSE Ok([i \in DOMAIN rs |-> rs[i].value])

\* derive(Serialize) for PublicKey, tag = "kty", with the field codecs.
Serialize_PublicKey(key) ==
    LET tag == SerializeVariant(PublicKey, key.variant) IN
    IF tag.tag = "Err" THEN tag
    ELSE IF key.variant = "Rsa"
    THEN Ok([kty |-> tag.value, n |-> base64url_uint_encode(key.n),
             e |-> base64url_uint_encode(key.e)])
    ELSE IF key.variant = "Ec"
    THEN Ok([kty |-> tag.value, crv |-> key.crv,
             x |-> base64url_encode(key.x), y |-> base64url_encode(key.y)])
    ELSE Ok([kty |-> tag.value, crv |-> key.crv,
             x |-> base64url_encode(key.x)])

\* A member that is left out when the Option is None (skip_serializing_if).
WithSome(obj, f, opt) == IF opt = None THEN obj ELSE With(obj, f, opt[1])

\* derive(Serialize) for PublicJwk: the flattened key, then use, key_ops,
\* alg and kid where they are Some.
Serialize_PublicJwk(k) ==
    LET key == Serialize_PublicKey(k.key)
        use == IF k.key_use = None THEN Ok(None)
               ELSE SerializeVariant(KeyUse, k.key_use[1])
        ops == IF k.key_operations = None THEN Ok(None)
               ELSE Collect([i \in DOMAIN k.key_operations[1] |->
                        SerializeVariant(KeyOperation, k.key_operations[1][i])])
    IN  IF key.tag = "Err" THEN key
        ELSE IF use.tag = "Err" THEN use
        ELSE IF ops.tag = "Err" THEN ops
        ELSE Ok(WithSome(WithSome(
                  WithSome(WithSome(key.value, "use",
                        IF k.key_use = None THEN None ELSE Some(use.value)),
                     "key_ops",
                     IF k.key_operations = None THEN None ELSE Some(ops.value)),
                  "alg", k.algorithm), "kid", k.kid))

\* serde_json::to_string(&PublicJwks { keys })
to_string(set) ==
    LET entries == Collect([i \in DOMAIN set.keys |->
                                Serialize_PublicJwk(set.keys[i])])
    IN  IF entries.tag = "Err" THEN entries
        ELSE Ok(Json([keys |-> entries.value]))

\* The fields without which a key of a variant does not deserialize, with y
\* of an EC key taken as optional.
RequiredFields_yOptional(variant) ==
    IF variant = "Rsa" THEN {"n", "e"}
    ELSE IF variant = "Ec" THEN {"crv", "x"}
    ELSE IF variant = "Okp" THEN {"crv", "x"}
    ELSE {}

\* The fields of RsaPublicKey, EcPublicKey, OkpPublicKey: none is an Option
\* and none has a default.
RequiredFields(variant) ==
    IF variant = "Rsa" THEN {"n", "e"}
    ELSE IF variant = "Ec" THEN {"crv", "x", "y"}
    ELSE IF variant = "Okp" THEN {"crv", "x"}
    ELSE {}

\* A byte field read with its codec (uint: base64url_uint).
ReadBytes(obj, f, uint) ==
    IF f \notin DOMAIN obj THEN Ok(<< >>)
    ELSE IF uint THEN base64url_uint_decode(obj[f])
    ELSE base64url_decode(obj[f])

\* derive(Deserialize) for PublicKey, tag = "kty".
Deserialize_PublicKey(obj) ==
    IF "kty" \notin DOMAIN obj THEN Err(ParseError("missing field kty"))
    ELSE
    LET v == DeserializeVariant(PublicKey, obj["kty"]) IN
    IF v.tag = "Err" THEN v
    ELSE IF RequiredFields(v.value) \ DOMAIN obj # {}
        THEN Err(ParseError("missing field"))
    ELSE IF v.value = "Rsa"
    THEN LET bs == Collect(<< ReadBytes(obj, "n", TRUE),
                              ReadBytes(obj, "e", TRUE) >>)
         IN IF bs.tag = "Err" THEN bs
            ELSE Ok(Rsa(bs.value[1], bs.value[2]))
    ELSE IF v.value = "Ec"
    THEN LET bs == Collect(<< ReadBytes(obj, "x", FALSE),
                              ReadBytes(obj, "y", FALSE) >>)
         IN IF bs.tag = "Err" THEN bs
            ELSE Ok(Ec(obj["crv"], bs.value[1], bs.value[2]))
    ELSE IF v.value = "Okp"
    THEN LET bs == ReadBytes(obj, "x", FALSE)
         IN IF bs.tag = "Err" THEN bs
            ELSE Ok(Okp(obj["crv"], bs.value))
    ELSE Ok(UnknownOrPrivate)

\* An optional member: None when it is missing.
ReadOption(obj, f) == IF f \in DOMAIN obj THEN Some(obj[f]) ELSE None

\* derive(Deserialize) for PublicJwk.
Deserialize_PublicJwk(obj) ==
    LET key == Deserialize_PublicKey(obj)
        use == IF "use" \notin DOMAIN obj THEN Ok(None)
               ELSE DeserializeVariant(KeyUse, obj["use"])
        ops == IF "key_ops" \notin DOMAIN obj THEN Ok(None)
               ELSE Collect([i \in DOMAIN obj["key_ops"] |->
                        DeserializeVariant(KeyOperation, obj["key_ops"][i])])
    IN  IF use.tag = "Err" THEN use
        ELSE IF ops.tag = "Err" THEN ops
        ELSE IF key.tag = "Err" THEN key
        ELSE Ok(PublicJwk(key.value,
                    IF "use" \in DOMAIN obj THEN Some(use.value) ELSE None,
                    IF "key_ops" \in DOMAIN obj THEN Some(ops.value) ELSE None,
                    ReadOption(obj, "alg"), ReadOption(obj, "kid")))

\* serde_json::from_str::<PublicJwks>(text)
from_str(text) ==
    IF ~text.wf THEN Err(ParseError("syntax"))
    ELSE IF "keys" \notin DOMAIN text.json
        THEN Err(ParseError("missing field keys"))
    ELSE LET keys == Collect([i \in DOMAIN text.json["keys"] |->
                                Deserialize_PublicJwk(text.json["keys"][i])])
         IN IF keys.tag = "Err" THEN keys
            ELSE Ok(PublicJwks(keys.value))

\* Key material the builders are given: RSA moduli with and without a
\* leading zero byte, EC keys on a registered and on another curve, an OKP
\* key; and the values of the optional members.
SampleKeys ==
    { Rsa(<< 251, 255 >>, << 1, 0, 1 >>), Rsa(<< 0, 210 >>, << 1, 0, 1 >>),
      Ec("P-256", << 251, 255 >>, << 1, 0, 1 >>),
      Ec("brainpoolP256r1", << 255 >>, << 0, 1 >>),
      Okp("Ed25519", << 251, 255 >>),
      UnknownOrPrivate }

SampleUses == { None, Some("Sign"), Some("Encrypt"), Some("Unknown") }

SampleOperations ==
    { None, Some(<< >>), Some(<< "Verify", "WrapKey" >>),
      Some(<< "Sign", "Unknown" >>) }

AllJwks ==
    { PublicJwk(key, use, ops, alg, kid) :
        key \in SampleKeys, use \in SampleUses, ops \in SampleOperations,
        alg \in {None, Some("RS256")}, kid \in {None, Some("1")} }

\* The keys that follow the first one in a key set.
MoreJwks ==
    { PublicJwk(Okp("Ed25519", << 251, 255 >>), None, None, None, Some("2")),
      PublicJwk(Rsa(<< 251, 255 >>, << 1, 0, 1 >>), Some("Sign"), None,
                None, Some("3")),
      PublicJwk(Ec("P-256", << 251, 255 >>, << 1, 0, 1 >>), None,
                Some(<< "Verify" >>), Some("ES256"), None) }

\* A key set is built, encoded to a document, and the document is parsed;
\* or a document written elsewhere is parsed.
NewJwk(pc) ==
    [pc |-> pc, keys |-> << >>, encoded |-> NoResult,
     doc |-> Json([keys |-> << >>]), parsed |-> NoResult]

InitJwk ==
    /\ SignerUnused
    /\ dec = DecIdle
    /\ sec = SecIdle
    /\ jwk = NewJwk("build")

\* PublicJwk::builder()...build(), pushed onto the key set.
AddKey(k) ==
    /\ jwk.pc = "build"
    /\ Len(jwk.keys) < MaxKeys
    /\ k \in (IF jwk.keys = << >> THEN AllJwks ELSE MoreJwks)
    /\ jwk' = [jwk EXCEPT !.keys = Append(@, k)]
    /\ UNCHANGED << signer, kind, failing, rotations, held, calls, dec, sec >>

\* serde_json::to_string(&PublicJwks { keys })
Encode ==
    /\ jwk.pc = "build"
    /\ LET r == to_string(PublicJwks(jwk.keys)) IN
       jwk' = [jwk EXCEPT !.encoded = r,
                          !.pc = IF r.tag = "Ok" THEN "text" ELSE "failed",
                          !.doc = IF r.tag = "Ok" THEN r.value ELSE @]
    /\ UNCHANGED << signer, kind, failing, rotations, held, calls, dec, sec >>

\* serde_json::from_str::<PublicJwks>(doc)
Parse ==
    /\ jwk.pc \in {"text", "write"}
    /\ jwk' = [jwk EXCEPT !.parsed = from_str(jwk.doc), !.pc = "parsed"]
    /\ UNCHANGED << signer, kind, failing, rotations, held, calls, dec, sec >>

NextJwk ==
    \/ \E k \in AllJwks \cup MoreJwks : AddKey(k)
    \/ Encode
    \/ Parse

SpecJwk == InitJwk /\ [][NextJwk]_vars

\* Documents from elsewhere. Their entries: every entry this codec writes,
\* such an entry with one member left out, and such an entry with one member
\* set to a value this version does not know (a key type, a use, an
\* operation, a curve), to text that is not base64url, or to an integer
\* written with its leading zero byte.
WrittenEntries ==
    { Serialize_PublicJwk(k).value :
        k \in { j \in AllJwks \cup MoreJwks : Serialize_PublicJwk(j).tag = "Ok" } }

ForeignValues ==
    { << "kty", "oct" >>, << "use", "tls" >>,
      << "key_ops", << "verify", "mystery" >> >>,
      << "crv", "secp256k1" >>, << "x", << 61 >> >>,
      << "n", << 65, 78, 73 >> >> }

Entries ==
    WrittenEntries
    \cup { Without(e, f) : e \in WrittenEntries,
                           f \in {"kty", "n", "e", "crv", "x", "y",
                                  "use", "key_ops", "alg", "kid"} }
    \cup { With(e, fv[1], fv[2]) : e \in WrittenEntries, fv \in ForeignValues }

\* The entries that follow in a document that starts with one of Entries.
MoreEntries ==
    { [kty |-> "OKP", crv |-> "Ed25519", x |-> << 45, 95, 56 >>],
      [kty |-> "EC", crv |-> "P-256", x |-> << 45, 95, 56 >>],
      [kty |-> "RSA", n |-> << 45, 95, 56 >>, e |-> << 65, 81, 65, 66 >>,
       kid |-> "k2"],
      [kty |-> "oct", kid |-> "k3"] }

InitParse ==
    /\ SignerUnused
    /\ dec = DecIdle
    /\ sec = SecIdle
    /\ \E first \in {<< >>} \cup { << e >> : e \in Entries } :
          jwk = [NewJwk("write") EXCEPT !.doc = Json([keys |-> first])]

\* The document's author adds a further entry to "keys".
WriteEntry(e) ==
    /\ jwk.pc = "write"
    /\ jwk.doc.wf
    /\ Len(jwk.doc.json["keys"]) < MaxKeys
    /\ jwk.doc.json["keys"] # << >>
    /\ jwk' = [jwk EXCEPT !.doc = Json([keys |-> Append(jwk.doc.json["keys"], e)])]
    /\ UNCHANGED << signer, kind, failing, rotations, held, calls, dec, sec >>

\* The document is cut short: what is left is not JSON.
Truncate ==
    /\ jwk.pc = "write"
    /\ jwk.doc.wf
    /\ jwk' = [jwk EXCEPT !.doc = NotJson]
    /\ UNCHANGED << signer, kind, failing, rotations, held, calls, dec, sec >>

NextParse ==
    \/ \E e \in MoreEntries : WriteEntry(e)
    \/ Truncate
    \/ Parse

SpecParse == InitParse /\ [][NextParse]_vars

\* ------------------------------------------------------------- properties
Invoked(cr) == cr.asyncCalls + cr.syncCalls

\* The guard of call cr read a value that differs from the expected one.
SawDifference(cr) ==
    \/ cr.seenAlg # << >> /\ cr.seenAlg[1] # cr.expAlg
    \/ cr.seenKid # << >> /\ cr.seenKid[1] # cr.expKid

\* The guard of call cr read both values and both equal the expected ones.
SawMatch(cr) ==
    /\ cr.seenAlg = << cr.expAlg >>
    /\ cr.seenKid = << cr.expKid >>

\* C1: a guarded call whose expected algorithm differs from the value
\* jws_algorithm() returns to it, or whose expected key id differs from the
\* value key_id() returns to it (Some vs None included), goes to
\* MismatchedKeyInfo and never invokes sign_unchecked; in particular a call
\* during which the key did not change and whose expected pair differs from
\* the signer's pair ends with MismatchedKeyInfo and no invocation.
C1_MismatchFailsWithoutSigning ==
    \A c \in CallIds :
        LET cr == calls[c] IN
        /\ SawDifference(cr) =>
            /\ cr.pc \in {"Mismatch", "FailMismatched"}
            /\ Invoked(cr) = 0
            /\ cr.usedKey = << >>
            /\ cr.pc = "FailMismatched" => cr.result = Err(MismatchedKeyInfo)
        /\ ( /\ cr.pc \in Terminal
             /\ ~cr.rotated
             /\ \/ cr.expAlg # cr.entryKey[1].alg
                \/ cr.expKid # cr.entryKey[1].kid ) =>
            /\ cr.result = Err(MismatchedKeyInfo)
            /\ Invoked(cr) = 0

\* A call with Some(key-id) expected on a signer reporting None has failed
\* with MismatchedKeyInfo.
C1_Witness ==
    \E c \in CallIds :
        /\ calls[c].pc = "FailMismatched"
        /\ calls[c].expKid = Some("key-id")
        /\ calls[c].seenKid = << None >>
        /\ calls[c].result = Err(MismatchedKeyInfo)

\* C2: a guarded call whose expected values equal the values the getters
\* return to it invokes sign_unchecked once with exactly the caller's input;
\* an error e of sign_unchecked comes back as UnderlyingError{source: e}, and
\* signature bytes come back as those same bytes.
C2_MatchSignsAndWraps ==
    \A c \in CallIds :
        LET cr == calls[c] IN
        /\ (SawMatch(cr) /\ cr.pc \in ({"Invoke"} \cup Terminal)) =>
            /\ cr.passed = << cr.input >>
            /\ cr.raw = SignWith(cr.usedKey[1], cr.input)
            /\ Invoked(cr) >= 1
        /\ (SawMatch(cr) /\ cr.pc \in Terminal) =>
            /\ cr.raw.tag = "Err" =>
                /\ cr.pc = "FailUnderlying"
                /\ cr.result = Err(UnderlyingError(cr.raw.error))
            /\ cr.raw.tag = "Ok" =>
                /\ cr.pc = "Success"
                /\ cr.result = Ok(cr.raw.value)
        /\ (~cr.rotated /\ cr.pc \in Terminal
            /\ cr.expAlg = cr.entryKey[1].alg
            /\ cr.expKid = cr.entryKey[1].kid) =>
            LET r == SignWith(cr.entryKey[1], cr.input) IN
            cr.result = IF r.tag = "Err" THEN Err(UnderlyingError(r.error)) ELSE r

\* A matching call whose signing primitive failed ended in UnderlyingError
\* carrying the primitive's error.
C2_Witness ==
    \E c \in CallIds :
        /\ calls[c].pc = "FailUnderlying"
        /\ SawMatch(calls[c])
        /\ calls[c].result =
            Err(UnderlyingError(<< "SignError", calls[c].input >>))

\* C3: under every interleaving of a rotation with a guarded call, a call
\* that returns a signature returns one made with the key whose
\* jws_algorithm and key_id equal the expected ones.
C3_SignedByExpectedKey ==
    \A c \in CallIds :
        calls[c].pc = "Success" =>
            /\ calls[c].usedKey[1].alg = calls[c].expAlg
            /\ calls[c].usedKey[1].kid = calls[c].expKid

\* C4: every successful guarded call yields one value holding the signature
\* together with the jws_algorithm and key_id verified in that call (the
\* fields of SignedBytes), and that metadata is the metadata of the key that
\* made the signature.
C4_ResultCarriesMetadata ==
    \A c \in CallIds :
        calls[c].pc = "Success" =>
            LET v == calls[c].result.value IN
            /\ DOMAIN v = {"signature", "jws_algorithm", "key_id"}
            /\ v.jws_algorithm = calls[c].usedKey[1].alg
            /\ v.key_id = calls[c].usedKey[1].kid

\* C5: on a blocking signer, sign through the blanket impl and sign_sync
\* called with the same input and expected pair end with the same outcome
\* (same signature bytes, or MismatchedKeyInfo, or UnderlyingError with the
\* same source), and algorithm(), jws_algorithm() and key_id() return the
\* same values through both interfaces.
C5_BlanketEqualsSync ==
    /\ Blanket_algorithm(signer) = Sync_algorithm(signer)
    /\ Blanket_jws_algorithm(signer) = Sync_jws_algorithm(signer)
    /\ Blanket_key_id(signer) = Sync_key_id(signer)
    /\ \A a, b \in CallIds :
        ( /\ calls[a].pc \in Terminal /\ calls[a].iface = "sync"
          /\ calls[b].pc \in Terminal /\ calls[b].iface = "async"
          /\ calls[a].input = calls[b].input
          /\ calls[a].expAlg = calls[b].expAlg
          /\ calls[a].expKid = calls[b].expKid ) =>
            /\ calls[a].result = calls[b].result
            /\ calls[a].pc = calls[b].pc

\* Both interfaces were called with the same arguments and returned the
\* same signature.
C5_Witness ==
    \E a, b \in CallIds :
        /\ calls[a].pc = "Success" /\ calls[a].iface = "sync"
        /\ calls[b].pc = "Success" /\ calls[b].iface = "async"
        /\ calls[a].input = calls[b].input
        /\ calls[a].result = calls[b].result

\* C6: a guarded call on a blocking signer through the suspending interface
\* evaluates the metadata guard once and calls the blocking sign_unchecked at
\* most once: each call of the adapter's sign_unchecked is one call of the
\* blocking sign_unchecked, made after the one guard evaluation of sign.
C6_BlanketDoesNotRecheck ==
    \A c \in CallIds :
        LET cr == calls[c] IN
        (cr.iface = "async" /\ kind = "blocking") =>
            /\ cr.syncCalls <= 1
            /\ cr.syncCalls = cr.asyncCalls
            /\ cr.pc \in ({"Invoke"} \cup Terminal) => cr.guardEvals = 1
            /\ cr.asyncCalls = 1 => cr.passed = << cr.input >>

\* A call through the blanket impl succeeded after one guard evaluation and
\* one call of the blocking primitive.
C6_Witness ==
    \E c \in CallIds :
        /\ calls[c].iface = "async" /\ kind = "blocking"
        /\ calls[c].pc = "Success"
        /\ calls[c].guardEvals = 1
        /\ calls[c].syncCalls = 1

\* The three complete paths of a guarded call.
Paths ==
    { << "Start", "CheckMetadata", "Match", "Invoke", "Success" >>,
      << "Start", "CheckMetadata", "Match", "Invoke", "FailUnderlying" >>,
      << "Start", "CheckMetadata", "Mismatch", "FailMismatched" >> }

IsPrefix(s, p) == Len(s) <= Len(p) /\ s = SubSeq(p, 1, Len(s))

\* C7: every guarded call follows Start -> CheckMetadata -> (Match -> Invoke
\* -> Success | FailUnderlying) | (Mismatch -> FailMismatched): the states it
\* has visited are a prefix of one of the three paths, a call at a terminal
\* outcome has gone through a whole path and has no further step, and a call
\* that is not at a terminal outcome can take a step.
C7_StateMachine ==
    \A c \in CallIds :
        LET cr == calls[c] IN
        /\ \E p \in Paths : IsPrefix(cr.trace, p)
        /\ cr.pc # "Idle" => cr.pc = cr.trace[Len(cr.trace)]
        /\ cr.pc \in Terminal => cr.trace \in Paths /\ ~ENABLED CallStep(c)
        /\ InFlight(cr) => ENABLED CallStep(c)
        /\ cr.pc = "Success" <=> cr.result.tag = "Ok"
        /\ cr.pc = "FailUnderlying" <=>
            (cr.result.tag = "Err" /\ cr.result.error.kind = "UnderlyingError")
        /\ cr.pc = "FailMismatched" <=> cr.result = Err(MismatchedKeyInfo)

\* A call has gone Start -> CheckMetadata -> Mismatch -> FailMismatched after
\* the algorithm matched and the key id did not.
C7_Witness ==
    \E c \in CallIds :
        /\ calls[c].trace =
            << "Start", "CheckMetadata", "Mismatch", "FailMismatched" >>
        /\ calls[c].seenKid # << >>

\* C8: within one guarded call the guard is evaluated at most once and
\* sign_unchecked is invoked at most once; a call that ended with
\* MismatchedKeyInfo evaluated the guard once and never signed, and one that
\* ended with UnderlyingError evaluated the guard once and signed once.
C8_NoRetry ==
    \A c \in CallIds :
        LET cr == calls[c] IN
        /\ cr.guardEvals <= 1
        /\ cr.asyncCalls <= 1
        /\ cr.syncCalls <= 1
        /\ cr.pc = "FailMismatched" => cr.guardEvals = 1 /\ Invoked(cr) = 0
        /\ cr.pc = "FailUnderlying" =>
            /\ cr.guardEvals = 1
            /\ (IF cr.iface = "sync" THEN cr.syncCalls ELSE cr.asyncCalls) = 1

\* A call failed with UnderlyingError after a single invocation, although the
\* key had been rotated meanwhile.
C8_Witness ==
    \E c \in CallIds :
        /\ calls[c].pc = "FailUnderlying"
        /\ calls[c].guardEvals = 1
        /\ Invoked(calls[c]) = 1
        /\ calls[c].rotated

C10_GuardSeesWholePair ==
    \A c \in CallIds :
        (calls[c].seenAlg # << >> /\ calls[c].seenKid # << >>) =>
            << calls[c].seenAlg[1], calls[c].seenKid[1] >> \in held

\* The str `cs` with its leading and trailing whitespace removed is `t`:
\* t is a stretch of cs with only whitespace before and after it, and t is
\* empty or starts and ends with a character that is no whitespace.
IsTrimOf(t, cs) ==
    \E a \in 0..Len(cs) :
        /\ a + Len(t) <= Len(cs)
        /\ t = SubSeq(cs, a + 1, a + Len(t))
        /\ \A i \in 1..a : IsWhitespace(cs[i])
        /\ \A i \in (a + Len(t) + 1)..Len(cs) : IsWhitespace(cs[i])
        /\ t # << >> => ~IsWhitespace(t[1]) /\ ~IsWhitespace(t[Len(t)])

\* C16: the text decoder fails with InvalidUtf8 on bytes that are not valid
\* UTF-8; on valid UTF-8 it succeeds with the text without its leading and
\* trailing whitespace, interior characters unchanged; a text that has no
\* leading or trailing whitespace is returned unchanged.
C16_TextDecoderTrims ==
    dec.decoder = "string" =>
        LET s == from_utf8(dec.bytes) IN
        IF s.tag = "Err"
        THEN dec.out.tag = "Err" /\ dec.out.error.kind = "InvalidUtf8"
        ELSE /\ dec.out.tag = "Ok"
             /\ IsTrimOf(dec.out.value, s.value)
             /\ ( s.value = << >>
                  \/ ( ~IsWhitespace(s.value[1])
                       /\ ~IsWhitespace(s.value[Len(s.value)]) ) ) =>
                    dec.out.value = s.value

\* The text " A" followed by U+00A0 has been decoded to "A".
C16_Witness ==
    /\ dec.decoder = "string"
    /\ dec.bytes = << 32, 65, 194, 160 >>
    /\ dec.out = Ok(<< 65 >>)

\* bytes, taken as text, is valid hex: an even number of hex digits.
IsHexText(bytes) ==
    /\ Len(bytes) % 2 = 0
    /\ \A i \in 1..Len(bytes) : HexVal(bytes[i]) < 16

\* bytes, taken as text, is standard padded base64.
IsBase64Text(bytes) ==
    LET n == Len(bytes)
        p == IF n >= 2 /\ bytes[n] = 61 /\ bytes[n - 1] = 61 THEN 2
             ELSE IF n >= 1 /\ bytes[n] = 61 THEN 1 ELSE 0
    IN  /\ n % 4 = 0
        /\ \A i \in 1..(n - p) : B64Val(bytes[i]) < 64
        /\ p = 1 => B64Val(bytes[n - 1]) % 4 = 0
        /\ p = 2 => B64Val(bytes[n - 2]) % 16 = 0

\* C17: the hex and base64 decoders fail with InvalidUtf8, never with
\* InvalidHex or InvalidBase64, on bytes that are not valid UTF-8; on valid
\* UTF-8 they fail with InvalidHex / InvalidBase64 exactly when the trimmed
\* text is not valid hex / standard padded base64; the binary decoder always
\* succeeds with its input unchanged.
C17_DecoderErrorOrder ==
    LET s == from_utf8(dec.bytes) IN
    /\ dec.decoder = "binary" => dec.out = Ok(dec.bytes)
    /\ (dec.decoder \in {"hex", "base64"} /\ s.tag = "Err") =>
            dec.out.tag = "Err" /\ dec.out.error.kind = "InvalidUtf8"
    /\ (dec.decoder = "hex" /\ s.tag = "Ok") =>
            IF IsHexText(as_bytes(trim(s.value)))
            THEN dec.out.tag = "Ok"
            ELSE dec.out.tag = "Err" /\ dec.out.error.kind = "InvalidHex"
    /\ (dec.decoder = "base64" /\ s.tag = "Ok") =>
            IF IsBase64Text(as_bytes(trim(s.value)))
            THEN dec.out.tag = "Ok"
            ELSE dec.out.tag = "Err" /\ dec.out.error.kind = "InvalidBase64"
    /\ (dec.out.tag = "Err" /\ dec.out.error.kind = "InvalidHex") =>
            dec.decoder = "hex"
    /\ (dec.out.tag = "Err" /\ dec.out.error.kind = "InvalidBase64") =>
            dec.decoder = "base64"

\* The hex decoder was given two hex digits followed by the byte 0xFF and
\* failed with InvalidUtf8.
C17_Witness ==
    /\ dec.decoder = "hex"
    /\ dec.bytes = << 65, 65, 255 >>
    /\ dec.out = Err(InvalidUtf8("Utf8Error"))

\* What get_secret has to return when the variable holds v (None: not set).
SecretOf(s, v) ==
    IF v = None THEN Err(EnvAccess(s.var_name, NotPresent))
    ELSE IF from_utf8(v[1]).tag = "Err"
         THEN Err(EnvAccess(s.var_name, NotUnicode(v[1])))
    ELSE IF decode(s.encoding, v[1]).tag = "Ok"
         THEN decode(s.encoding, v[1])
    ELSE Err(Decode(decode(s.encoding, v[1]).error))

\* C11: get_secret fails with EnvAccess, carrying the variable's name, when
\* the variable is not set or is not valid Unicode, and the decoder is not
\* invoked then; otherwise the decoder is invoked once on the value's bytes
\* and get_secret returns its output, or Decode wrapping its error.
C11_EnvAccessOrDecode ==
    /\ sec.pc = "decode" =>
          sec.atRead # None /\ from_utf8(sec.atRead[1]).tag = "Ok"
    /\ sec.pc = "done" =>
        IF sec.atRead = None \/ from_utf8(sec.atRead[1]).tag = "Err"
        THEN /\ sec.result.tag = "Err"
             /\ sec.result.error.kind = "EnvAccess"
             /\ sec.result.error.var_name = sec.var_name
             /\ sec.result.error.source =
                    IF sec.atRead = None THEN NotPresent
                    ELSE NotUnicode(sec.atRead[1])
             /\ sec.decodeCalls = 0
        ELSE /\ sec.decodeCalls = 1
             /\ sec.decodeArg = sec.atRead
             /\ LET d == decode(sec.encoding, sec.atRead[1]) IN
                IF d.tag = "Ok" THEN sec.result = d
                ELSE sec.result = Err(Decode(d.error))

\* get_secret on a hex source found " AA==" in the variable and returned
\* Decode wrapping the decoder's InvalidHex.
C11_Witness ==
    /\ sec.pc = "done"
    /\ sec.encoding = "hex"
    /\ sec.atRead = Some(<< 32, 65, 65, 61, 61 >>)
    /\ sec.decodeCalls = 1
    /\ sec.result = Err(Decode(InvalidHex("InvalidHexCharacter")))

\* C12: the source caches nothing: each get_secret call returns what the
\* variable held at a time during that call (decoded, or EnvAccess), also
\* when the environment changed since an earlier call.
C12_NoCachedValue ==
    sec.pc = "done" =>
        /\ sec.result \in { SecretOf(sec, v) : v \in sec.during }
        /\ sec.result = SecretOf(sec, sec.atRead)

\* The second call returned another secret than the first one did.
C12_Witness ==
    /\ sec.pc = "done"
    /\ sec.gets = 2
    /\ sec.result.tag = "Ok"
    /\ sec.lastResult.tag = "Ok"
    /\ sec.result # sec.lastResult

\* The key has RSA, EC or OKP material.
HasMaterial(k) == k.key.variant \in {"Rsa", "Ec", "Okp"}

\* The key's use and key_ops hold none of the Unknown markers, and its RSA
\* integers have no leading zero byte.
IsCanonical(k) ==
    /\ k.key_use # Some("Unknown")
    /\ k.key_operations # None =>
          \A i \in DOMAIN k.key_operations[1] :
              k.key_operations[1][i] # "Unknown"
    /\ k.key.variant = "Rsa" =>
          /\ k.key.n = << >> \/ k.key.n[1] # 0
          /\ k.key.e = << >> \/ k.key.e[1] # 0

\* The key set was built and encoding was attempted.
Encoded == jwk.pc \in {"text", "failed", "parsed"} /\ jwk.encoded # NoResult

\* C13 as stated: for every key set of keys with RSA, EC or OKP material and
\* any use, key_ops, alg and kid, encoding succeeds and parsing the
\* document yields an equal key set, keys in the same order.
C13_RoundTripAny ==
    (Encoded /\ \A i \in DOMAIN jwk.keys : HasMaterial(jwk.keys[i])) =>
        /\ jwk.encoded.tag = "Ok"
        /\ jwk.pc = "parsed" => jwk.parsed = Ok(PublicJwks(jwk.keys))

\* C13 amended: for every key set of keys with RSA, EC or OKP material whose
\* use and key_ops hold no Unknown and whose RSA integers have no leading
\* zero byte, with any alg and kid, encoding succeeds and parsing the
\* document yields an equal key set, keys in the same order.
C13_RoundTripCanonical ==
    (Encoded /\ \A i \in DOMAIN jwk.keys :
                    HasMaterial(jwk.keys[i]) /\ IsCanonical(jwk.keys[i])) =>
        /\ jwk.encoded.tag = "Ok"
        /\ jwk.pc = "parsed" => jwk.parsed = Ok(PublicJwks(jwk.keys))

\* A set of two keys, the first an RSA key with use, key_ops, alg and kid,
\* came back equal from its document.
C13_Witness ==
    /\ jwk.pc = "parsed"
    /\ jwk.encoded # NoResult
    /\ Len(jwk.keys) = 2
    /\ jwk.keys[1].key = Rsa(<< 251, 255 >>, << 1, 0, 1 >>)
    /\ jwk.keys[1].key_use = Some("Encrypt")
    /\ jwk.keys[1].key_operations = Some(<< "Verify", "WrapKey" >>)
    /\ jwk.keys[1].algorithm # None
    /\ jwk.keys[1].kid # None
    /\ jwk.keys[2] # jwk.keys[1]
    /\ jwk.parsed = Ok(PublicJwks(jwk.keys))

\* What the wire format names: key types, uses and operations.
KnownKty == {"RSA", "EC", "OKP"}
KnownUse == {"sig", "enc"}
KnownOps == {"sign", "verify", "encrypt", "decrypt",
             "wrapKey", "unwrapKey", "deriveKey", "deriveBits"}

\* The members an entry of a key type has to have.
Required(kty) ==
    IF kty = "RSA" THEN {"n", "e"}
    ELSE IF kty = "EC" THEN {"crv", "x", "y"}
    ELSE IF kty = "OKP" THEN {"crv", "x"}
    ELSE {}

\* The entry names a key type and, if the type is a known one, has the
\* members of that type, each byte member in base64url.
IsComplete(e) ==
    /\ "kty" \in DOMAIN e
    /\ e["kty"] \in KnownKty =>
          /\ Required(e["kty"]) \subseteq DOMAIN e
          /\ \A f \in Required(e["kty"]) \ {"crv"} :
                base64url_decode(e[f]).tag = "Ok"

\* The entry's key type, use and operations are all known ones.
AllKnown(e) ==
    /\ e["kty"] \in KnownKty
    /\ "use" \in DOMAIN e => e["use"] \in KnownUse
    /\ "key_ops" \in DOMAIN e =>
          \A i \in DOMAIN e["key_ops"] : e["key_ops"][i] \in KnownOps

\* A document has been parsed; its entries, if it is JSON.
Parsed == jwk.pc = "parsed" /\ jwk.parsed # NoResult

DocEntries == IF jwk.doc.wf THEN jwk.doc.json["keys"] ELSE << >>

\* C14: parsing never fails because of a value it does not recognize: in a
\* document of complete entries a key type outside RSA, EC, OKP gives
\* UnknownOrPrivate, a use outside sig, enc gives KeyUse::Unknown, an
\* operation outside the eight gives KeyOperation::Unknown, an EC or OKP
\* entry keeps whatever curve name it has, and the key of every entry of a
\* known type is of that type.
C14_UnknownValuesParse ==
    (Parsed /\ jwk.doc.wf /\ \A i \in DOMAIN DocEntries : IsComplete(DocEntries[i])) =>
        /\ jwk.parsed.tag = "Ok"
        /\ Len(jwk.parsed.value.keys) = Len(DocEntries)
        /\ \A i \in DOMAIN DocEntries :
            LET e == DocEntries[i]
                k == jwk.parsed.value.keys[i]
            IN  /\ e["kty"] \notin KnownKty => k.key = UnknownOrPrivate
                /\ e["kty"] = "RSA" => k.key.variant = "Rsa"
                /\ e["kty"] = "EC" => k.key.variant = "Ec" /\ k.key.crv = e["crv"]
                /\ e["kty"] = "OKP" => k.key.variant = "Okp" /\ k.key.crv = e["crv"]
                /\ ("use" \in DOMAIN e /\ e["use"] \notin KnownUse) =>
                        k.key_use = Some("Unknown")
                /\ "key_ops" \in DOMAIN e =>
                        \A j \in DOMAIN e["key_ops"] :
                            e["key_ops"][j] \notin KnownOps =>
                                k.key_operations[1][j] = "Unknown"

\* C15: parsing fails with a ParseError, and yields no key set, when the
\* text is not JSON or an entry of a known key type lacks a member that type
\* requires; a document of complete entries of known types, uses and
\* operations parses whichever of use, key_ops, alg and kid its entries
\* leave out.
C15_ParseErrors ==
    Parsed =>
        /\ ( \/ ~jwk.doc.wf
             \/ \E i \in DOMAIN DocEntries :
                    /\ "kty" \in DOMAIN DocEntries[i]
                    /\ DocEntries[i]["kty"] \in KnownKty
                    /\ ~(Required(DocEntries[i]["kty"]) \subseteq DOMAIN DocEntries[i]) ) =>
                jwk.parsed.tag = "Err" /\ jwk.parsed.error.kind = "ParseError"
        /\ ( /\ jwk.doc.wf
             /\ \A i \in DOMAIN DocEntries :
                    IsComplete(DocEntries[i]) /\ AllKnown(DocEntries[i]) ) =>
                /\ jwk.parsed.tag = "Ok"
                /\ Len(jwk.parsed.value.keys) = Len(DocEntries)

\* A document whose first entry is a complete RSA entry without use, key_ops,
\* alg and kid and whose second entry is an EC entry without y was rejected.
C15_Witness ==
    /\ Parsed
    /\ jwk.doc.wf
    /\ Len(DocEntries) = 2
    /\ DOMAIN DocEntries[1] = {"kty", "n", "e"}
    /\ DocEntries[1]["kty"] = "RSA"
    /\ DocEntries[2] = [kty |-> "EC", crv |-> "P-256", x |-> << 45, 95, 56 >>]
    /\ jwk.parsed.tag = "Err"

====
